---- MODULE Spec2Model ----
(***************************************************************************)
(* A model of the options analytics engine (OptionsAnalyzer in             *)
(* src/option_scenario_calculator.py) and of the web application's shared  *)
(* analyzer (src/app.py).                                                  *)
(*                                                                         *)
(* Numbers.  Python floats are modelled as fixed-point integers with four  *)
(* decimals: the integer n stands for n / SCALE, so $604.53 is 6045300,    *)
(* a volatility of 13.2% is 1320 and a delta of 1 is 10000.  The fields    *)
(* that _scale_greeks divides (theta, vega, rho) are exact fractions       *)
(* [n, d] in lowest terms, so that a division by 1440 or by 100 loses      *)
(* nothing and two scalings can be compared exactly.  The library          *)
(* functions np.log, np.sqrt, np.exp, norm.cdf and norm.pdf are computed   *)
(* by series and by tables at this resolution.                             *)
(***************************************************************************)
EXTENDS Integers, Sequences, FiniteSets, TLC

VARIABLES
    greeks_scaling,   \* OptionsAnalyzer.greeks_scaling
    prev_scaling,     \* history: the mode selected before the current one
    config,           \* OptionsAnalyzer.config
    sort_ties,        \* what this build's unstable sort does with equal keys
    ret,              \* what the last call of the analyzer's API returned
    rescaled,         \* result of a further _scale_greeks on ret's Greeks
    changes,          \* number of calls that reconfigured the analyzer
    analysis,         \* the web app's /api/analyze request in flight
    comparison,       \* the web app's /api/greeks-comparison request in flight
    analyzer,         \* the web app's global analyzer: its underlying, instance
    session,          \* IBKRTradingBot.run_trading_session and its broker
    strategy          \* ThetaDecayBot.run_strategy

\* the state outside the analyzer's own computations
elsewhere == <<analyzer, session, strategy>>

vars == <<greeks_scaling, prev_scaling, config, sort_ties, ret, rescaled,
          changes, analysis, comparison, elsewhere>>

-----------------------------------------------------------------------------
(* Fixed-point arithmetic *)

SCALE == 10 ^ 4

Abs(x) == IF x < 0 THEN -x ELSE x

Sgn(x) == IF x < 0 THEN -1 ELSE 1

Max(a, b) == IF a >= b THEN a ELSE b

Min(a, b) == IF a <= b THEN a ELSE b

\* the value of an expression whose local assignments are each computed
\* once: Only({e(x) : x \in {right_side}}) is e after x = right_side
Only(values) == CHOOSE v \in values : TRUE

\* the float product a * b, truncated to four decimals; the larger factor
\* is split at SCALE so that no intermediate exceeds 32 bits
Mul[a \in Int, b \in Int] ==
    LET hi == Max(Abs(a), Abs(b))
        lo == Min(Abs(a), Abs(b))
    IN  Sgn(a) * Sgn(b)
            * ((hi \div SCALE) * lo + ((hi % SCALE) * lo) \div SCALE)

\* the float quotient a / b (b # 0), truncated to four decimals, by long
\* division two digits at a time
Div[a \in Int, b \in Int] ==
    LET n  == Abs(a)
        d  == Abs(b)
        r1 == (n % d) * 100
        r2 == (r1 % d) * 100
    IN  Sgn(a) * Sgn(b)
            * ((n \div d) * SCALE + (r1 \div d) * 100 + (r2 \div d))

\* round(x, k) of Python: to the nearest multiple of unit, halves to even
RoundTo[x \in Int, unit \in Int] ==
    LET q == x \div unit
        r == x % unit
    IN  IF 2 * r < unit THEN q * unit
        ELSE IF 2 * r > unit THEN (q + 1) * unit
        ELSE IF q % 2 = 0 THEN q * unit ELSE (q + 1) * unit

\* Newton's iteration for the floor of the square root of n, from guess g
IsqrtFrom[n \in Nat, g \in Nat] ==
    LET h == (g + n \div g) \div 2
    IN  IF h >= g THEN g ELSE IsqrtFrom[n, h]

\* np.sqrt
Sqrt[x \in Nat] == IF x = 0 THEN 0 ELSE IsqrtFrom[x * SCALE, x * SCALE]

\* np.log, by ln x = 2 atanh((x-1)/(x+1))
Ln[x \in Int] ==
    LET z  == Div[x - SCALE, x + SCALE]
        z2 == Mul[z, z]
        z3 == Mul[z, z2]
        z5 == Mul[z3, z2]
    IN  2 * z + (2 * z3) \div 3 + (2 * z5) \div 5

\* np.exp near 0, by its series
Exp[x \in Int] ==
    LET x2 == Mul[x, x]
        x3 == Mul[x2, x]
    IN  SCALE + x + Sgn(x2) * (Abs(x2) \div 2) + Sgn(x3) * (Abs(x3) \div 6)

\* norm.cdf and norm.pdf at 0, 0.125, ..., 4.25 (index 1 is x = 0)
CdfTable ==
    <<5000, 5497, 5987, 6462, 6915, 7340, 7734, 8092, 8413, 8697, 8944,
      9154, 9332, 9479, 9599, 9696, 9772, 9832, 9878, 9912, 9938, 9957,
      9970, 9980, 9987, 9991, 9994, 9996, 9998, 9999, 9999, 9999, 10000,
      10000, 10000>>

PdfTable ==
    <<3989, 3958, 3867, 3719, 3521, 3282, 3011, 2721, 2420, 2119, 1826,
      1550, 1295, 1065, 863, 688, 540, 417, 317, 238, 175, 127, 91, 64, 44,
      30, 20, 13, 9, 6, 4, 2, 1, 1, 0>>

TableStep == SCALE \div 8

Interpolate(tab, x) ==
    LET i == x \div TableStep
        f == x % TableStep
    IN  IF i + 2 > Len(tab) THEN tab[Len(tab)]
        ELSE tab[i + 1] + ((tab[i + 2] - tab[i + 1]) * f) \div TableStep

\* scipy.stats.norm.cdf
NormCdf[x \in Int] ==
    IF x >= 0 THEN Interpolate(CdfTable, x)
    ELSE SCALE - Interpolate(CdfTable, -x)

\* scipy.stats.norm.pdf
NormPdf[x \in Int] == Interpolate(PdfTable, Abs(x))

Gcd[a \in Nat, b \in Nat] == IF b = 0 THEN a ELSE Gcd[b, a % b]

\* the fraction n/d in lowest terms with a positive denominator
Frac[n \in Int, d \in Int] ==
    LET g == Gcd[Abs(n), Abs(d)]
    IN  [n |-> Sgn(d) * (n \div g), d |-> Abs(d) \div g]

FracOf(x) == [n |-> x, d |-> 1]

FracDiv(q, k) == Frac[q.n, q.d * k]

FracMul(q, k) == Frac[q.n * k, q.d]

\* a fraction of SCALE-units rounded to a multiple of 1/per of a SCALE-unit
\* (round(x, 6) is FracRound(x, 100): millionths)
FracRound(q, per) ==
    LET m == q.n * per
        f == m \div q.d
        r == m % q.d
    IN  IF 2 * r < q.d THEN f
        ELSE IF 2 * r > q.d THEN f + 1
        ELSE IF f % 2 = 0 THEN f ELSE f + 1

-----------------------------------------------------------------------------
(* OptionsAnalyzer: scaling and the pricing kernel *)

ScalingModes == {"daily", "per_minute", "annual"}

\* set_greeks_scaling without its check: whatever is passed is assigned
set_greeks_scaling_unchecked(old, scaling) == scaling

\* set_greeks_scaling: the new greeks_scaling, or the old one when it raises
set_greeks_scaling(old, scaling) ==
    IF scaling \notin ScalingModes THEN old ELSE scaling

MinutesPerDay == 24 * 60

\* faulty variant of _scale_greeks: per_minute divides theta by the minutes
\* of an hour
scale_greeks_hourly(greeks_dict, mode) ==
    IF mode = "per_minute"
    THEN [greeks_dict EXCEPT !.theta = FracDiv(@, 60),
                             !.rho = FracDiv(@, 100)]
    ELSE IF mode = "annual"
    THEN [greeks_dict EXCEPT !.theta = FracMul(@, 365),
                             !.vega = FracMul(@, 100)]
    ELSE greeks_dict

\* faulty variant of _scale_greeks: annual converts rho as it converts vega
scale_greeks_rho_annual(greeks_dict, mode) ==
    IF mode = "per_minute"
    THEN [greeks_dict EXCEPT !.theta = FracDiv(@, MinutesPerDay),
                             !.rho = FracDiv(@, 100)]
    ELSE IF mode = "annual"
    THEN [greeks_dict EXCEPT !.theta = FracMul(@, 365),
                             !.vega = FracMul(@, 100),
                             !.rho = FracMul(@, 100)]
    ELSE greeks_dict

\* _scale_greeks(greeks_dict, T) with self.greeks_scaling = mode
scale_greeks(greeks_dict, mode) ==
    IF mode = "per_minute"
    THEN [greeks_dict EXCEPT !.theta = FracDiv(@, MinutesPerDay),
                             !.rho = FracDiv(@, 100)]
    ELSE IF mode = "annual"
    THEN [greeks_dict EXCEPT !.theta = FracMul(@, 365),
                             !.vega = FracMul(@, 100)]
    ELSE greeks_dict

\* faulty variant of the T <= 0 branch: an option at the money has the
\* delta of one in the money
intrinsic_greeks_inclusive(S, K, option_type) ==
    IF option_type = "call"
    THEN [price |-> Max(S - K, 0), delta |-> IF S >= K THEN SCALE ELSE 0,
          gamma |-> 0, theta |-> FracOf(0), vega |-> FracOf(0),
          rho |-> FracOf(0), d1 |-> 0, d2 |-> 0]
    ELSE [price |-> Max(K - S, 0), delta |-> IF S <= K THEN -SCALE ELSE 0,
          gamma |-> 0, theta |-> FracOf(0), vega |-> FracOf(0),
          rho |-> FracOf(0), d1 |-> 0, d2 |-> 0]

\* faulty variant of the T <= 0 branch: the delta of a put in the money
\* without its sign
intrinsic_greeks_unsigned(S, K, option_type) ==
    IF option_type = "call"
    THEN [price |-> Max(S - K, 0), delta |-> IF S > K THEN SCALE ELSE 0,
          gamma |-> 0, theta |-> FracOf(0), vega |-> FracOf(0),
          rho |-> FracOf(0), d1 |-> 0, d2 |-> 0]
    ELSE [price |-> Max(K - S, 0), delta |-> IF S < K THEN SCALE ELSE 0,
          gamma |-> 0, theta |-> FracOf(0), vega |-> FracOf(0),
          rho |-> FracOf(0), d1 |-> 0, d2 |-> 0]

\* faulty variant of the T <= 0 branch: the call's delta by the moneyness
\* test of the put
intrinsic_greeks_swapped(S, K, option_type) ==
    IF option_type = "call"
    THEN [price |-> Max(S - K, 0), delta |-> IF S < K THEN SCALE ELSE 0,
          gamma |-> 0, theta |-> FracOf(0), vega |-> FracOf(0),
          rho |-> FracOf(0), d1 |-> 0, d2 |-> 0]
    ELSE [price |-> Max(K - S, 0), delta |-> IF S < K THEN -SCALE ELSE 0,
          gamma |-> 0, theta |-> FracOf(0), vega |-> FracOf(0),
          rho |-> FracOf(0), d1 |-> 0, d2 |-> 0]

\* the T <= 0 branch of black_scholes_price
intrinsic_greeks(S, K, option_type) ==
    IF option_type = "call"
    THEN [price |-> Max(S - K, 0), delta |-> IF S > K THEN SCALE ELSE 0,
          gamma |-> 0, theta |-> FracOf(0), vega |-> FracOf(0),
          rho |-> FracOf(0), d1 |-> 0, d2 |-> 0]
    ELSE [price |-> Max(K - S, 0), delta |-> IF S < K THEN -SCALE ELSE 0,
          gamma |-> 0, theta |-> FracOf(0), vega |-> FracOf(0),
          rho |-> FracOf(0), d1 |-> 0, d2 |-> 0]

\* float('inf') and float('nan'): numpy divides by 0.0 without raising
\* (the module filters the warnings), x / 0.0 being inf, -inf or nan
Infinity == 2 ^ 30

NaN == -(2 ^ 30) - 1

\* the float quotient num / 0.0
quotient_by_zero(num) ==
    CASE num > 0 -> Infinity
      [] num < 0 -> -Infinity
      [] num = 0 -> NaN

\* norm.cdf of a float that may be inf or nan
norm_cdf(x) == IF x = NaN THEN NaN ELSE NormCdf[x]

\* -x of a float that may be inf or nan
negative(x) == IF x = NaN THEN NaN ELSE -x

\* the Greeks the formula of black_scholes_price yields when sigma *
\* np.sqrt(T) is 0.0 or too small for d1 to be within the tables: d1 and
\* d2 are +-inf, norm.cdf is 1.0 or 0.0, norm.pdf is 0.0, and gamma is
\* 0.0 / 0.0 when sigma is 0
zero_vol_greeks(S, K, T, r, sigma, option_type) ==
    LET Kdisc == Mul[K, Exp[-Mul[r, T]]]
        gamma == IF sigma = 0 THEN NaN ELSE 0
        greeks(d1, cdf) ==
            IF option_type = "call"
            THEN [price |-> Mul[S, cdf] - Mul[Kdisc, cdf],
                  delta |-> cdf,
                  gamma |-> gamma,
                  theta |-> Frac[-Mul[Mul[Kdisc, r], cdf], 365],
                  vega |-> FracOf(0),
                  rho |-> FracOf(Mul[Mul[Kdisc, T], cdf]),
                  d1 |-> d1, d2 |-> d1]
            ELSE [price |-> Mul[Kdisc, SCALE - cdf] - Mul[S, SCALE - cdf],
                  delta |-> -(SCALE - cdf),
                  gamma |-> gamma,
                  theta |-> Frac[Mul[Mul[Kdisc, r], SCALE - cdf], 365],
                  vega |-> FracOf(0),
                  rho |-> FracOf(-Mul[Mul[Kdisc, T], SCALE - cdf]),
                  d1 |-> d1, d2 |-> d1]
        at(d1) ==
            IF d1 = NaN
            THEN [price |-> NaN, delta |-> NaN, gamma |-> NaN,
                  theta |-> FracOf(NaN), vega |-> FracOf(NaN),
                  rho |-> FracOf(NaN), d1 |-> NaN, d2 |-> NaN]
            ELSE Only({greeks(d1, cdf) : cdf \in
                        {IF d1 = Infinity THEN SCALE ELSE 0}})
    IN  Only({at(d1) : d1 \in
                Only({{quotient_by_zero(num)} : num \in
                        {Ln[Div[S, K]]
                         + Mul[r + Mul[sigma, sigma] \div 2, T]}})})

\* the Greeks black_scholes_price computes for T > 0, before scaling
raw_greeks(S, K, T, r, sigma, option_type) ==
    LET sqrtT == Sqrt[T]
        vol   == Mul[sigma, sqrtT]
        disc  == Exp[-Mul[r, T]]
        Kdisc == Mul[K, disc]
        greeks(d1) ==
            LET d2    == d1 - vol
                decay == Div[Mul[Mul[S, NormPdf[d1]], sigma], 2 * sqrtT]
            IN  IF option_type = "call"
                THEN [price |-> Mul[S, NormCdf[d1]] - Mul[Kdisc, NormCdf[d2]],
                      delta |-> NormCdf[d1],
                      gamma |-> Div[NormPdf[d1], Mul[S, vol]],
                      theta |-> Frac[-decay - Mul[Mul[Kdisc, r], NormCdf[d2]],
                                     365],
                      vega |-> Frac[Mul[Mul[S, NormPdf[d1]], sqrtT], 100],
                      rho |-> FracOf(Mul[Mul[Kdisc, T], NormCdf[d2]]),
                      d1 |-> d1, d2 |-> d2]
                ELSE [price |-> Mul[Kdisc, NormCdf[-d2]] - Mul[S, NormCdf[-d1]],
                      delta |-> -NormCdf[-d1],
                      gamma |-> Div[NormPdf[d1], Mul[S, vol]],
                      theta |-> Frac[-decay + Mul[Mul[Kdisc, r], NormCdf[-d2]],
                                     365],
                      vega |-> Frac[Mul[Mul[S, NormPdf[d1]], sqrtT], 100],
                      rho |-> FracOf(-Mul[Mul[Kdisc, T], NormCdf[-d2]]),
                      d1 |-> d1, d2 |-> d2]
    IN  IF vol = 0 THEN zero_vol_greeks(S, K, T, r, sigma, option_type)
        ELSE Only({greeks(d1) : d1 \in
                {Div[Ln[Div[S, K]] + Mul[r + Mul[sigma, sigma] \div 2, T],
                     vol]}})

\* black_scholes_price discounting nothing: the formula at a rate of 0
black_scholes_price_undiscounted(S, K, T, r, sigma, option_type, mode) ==
    IF T <= 0 THEN intrinsic_greeks(S, K, option_type)
    ELSE scale_greeks(raw_greeks(S, K, T, 0, sigma, option_type), mode)

\* black_scholes_price(S, K, T, r, sigma, option_type) with
\* self.greeks_scaling = mode
black_scholes_price(S, K, T, r, sigma, option_type, mode) ==
    IF T <= 0 THEN intrinsic_greeks(S, K, option_type)
    ELSE scale_greeks(raw_greeks(S, K, T, r, sigma, option_type), mode)

-----------------------------------------------------------------------------
(* OptionsAnalyzer: configuration *)

\* one entry of config['expected_moves']: kind is "num" for a float,
\* "bool" for True (which Python adds as 1) and "str" for a string
Move(name, kind, size) == [name |-> name, kind |-> kind, size |-> size]

\* _get_default_config for 'SPY'; expected_moves keeps the dict's order
DefaultConfig ==
    [current_price |-> 6045300,
     strike_increment |-> 25000,
     strike_range_width |-> 350000,
     expected_moves |-> <<Move("target_move", "num", 20000),
                          Move("conservative", "num", 10000),
                          Move("aggressive", "num", 30000)>>,
     min_premium |-> 500,
     max_premium |-> 500000,
     price_adjustment |-> 0,
     mark_vs_theoretical |-> "theoretical"]

\* update_config(**kwargs): self.config.update(kwargs)
update_config(cfg, kwargs) ==
    [key \in DOMAIN cfg \cup DOMAIN kwargs |->
        IF key \in DOMAIN kwargs THEN kwargs[key] ELSE cfg[key]]

-----------------------------------------------------------------------------
(* OptionsAnalyzer: the strike ladder *)

\* round(S / increment): Python rounds halves to even
round_ratio(S, increment) ==
    LET q == S \div increment
        r == S % increment
    IN  IF 2 * r < increment THEN q
        ELSE IF 2 * r > increment THEN q + 1
        ELSE IF q % 2 = 0 THEN q ELSE q + 1

\* dte_multiplier = max(0.5, min(2.0, dte / 7)), times 14
dte_multiplier14(dte) == Max(7, Min(28, 2 * dte))

\* a Python list or array: its elements are computed when it is built
List(f) == <<>> \o f

\* np.arange(start, stop, step): ceil((stop - start) / step) values
arange(start, stop, step) ==
    LET n == IF stop <= start THEN 0 ELSE (stop - start + step - 1) \div step
    IN  List([i \in 1..n |-> start + (i - 1) * step])

\* generate_strike_range(S, dte) in fourteenths of a SCALE-unit, the unit
\* in which the dte / 7 of the multiplier is exact
strike_range14(S, dte, increment, width) ==
    LET adjusted_width == width * dte_multiplier14(dte)
        atm_strike     == round_ratio(S, increment) * increment
        start_strike   == 14 * atm_strike - adjusted_width
        end_strike     == 14 * atm_strike + adjusted_width
    IN  arange(start_strike, end_strike + 14 * increment, 14 * increment)

\* the strikes as floats of four decimals
nearest_float(ks) == List([i \in 1..Len(ks) |-> RoundTo[ks[i], 14] \div 14])

\* generate_strike_range(S, dte) with self.config = cfg
generate_strike_range(S, dte, cfg) ==
    Only({nearest_float(ks) : ks \in
             {strike_range14(S, dte, cfg.strike_increment,
                             cfg.strike_range_width)}})

-----------------------------------------------------------------------------
(* OptionsAnalyzer: probabilities, mark price, rows and score *)

\* calculate_probability_profit; the function has no branch on T or on
\* sigma: np.sqrt of a negative T is nan, and a sigma * np.sqrt(T) of 0.0
\* divides to inf, -inf or nan
calculate_probability_profit(S, K, T, r, sigma, option_type, mode) ==
    LET vol   == IF T < 0 THEN NaN ELSE Mul[sigma, Sqrt[T]]
        drift == Mul[r - Mul[sigma, sigma] \div 2, T]
        over_vol(num) == IF vol = NaN THEN NaN
                         ELSE IF vol = 0 THEN quotient_by_zero(num)
                         ELSE Div[num, vol]
        d_itm == over_vol(Ln[Div[S, K]] + drift)
        probabilities(option_price) ==
            LET breakeven == IF option_type = "call" THEN K + option_price
                             ELSE K - option_price
                d == over_vol(Ln[Div[S, breakeven]] + drift)
            IN  [breakeven |-> breakeven,
                 prob_profit |-> IF option_type = "call" THEN norm_cdf(d)
                                 ELSE norm_cdf(negative(d)),
                 prob_itm |-> IF option_type = "call" THEN norm_cdf(d_itm)
                              ELSE norm_cdf(negative(d_itm)),
                 premium |-> option_price]
    IN  Only({probabilities(option_price) : option_price \in
                {black_scholes_price(S, K, T, r, sigma, option_type,
                                     mode).price}})

\* calculate_mark_price with the mark taken between the quotes it returns,
\* the bid after its floor
calculate_mark_price_quoted(theoretical_price, S, K, option_type, liquidity_factor) ==
    LET moneyness == IF option_type = "call" THEN Div[S, K] ELSE Div[K, S]
        spread_pct ==
            IF 9500 <= moneyness /\ moneyness <= 10500
            THEN Mul[200, liquidity_factor]
            ELSE IF 9000 <= moneyness /\ moneyness <= 11000
            THEN Mul[300, liquidity_factor]
            ELSE Mul[500, liquidity_factor]
        spread == Mul[theoretical_price, spread_pct]
        bid2 == 2 * theoretical_price - spread
        ask2 == 2 * theoretical_price + spread
    IN  [theoretical_price |-> theoretical_price,
         mark_price |-> (Max(200, bid2) + ask2) \div 4,
         bid |-> Max(100, bid2 \div 2),
         ask |-> (ask2 + 1) \div 2,
         spread |-> spread,
         spread_percentage |-> spread_pct * 100]

\* calculate_mark_price(theoretical_price, S, K, option_type, liquidity_factor)
calculate_mark_price(theoretical_price, S, K, option_type, liquidity_factor) ==
    LET moneyness == IF option_type = "call" THEN Div[S, K] ELSE Div[K, S]
        spread_pct ==
            IF 9500 <= moneyness /\ moneyness <= 10500
            THEN Mul[200, liquidity_factor]
            ELSE IF 9000 <= moneyness /\ moneyness <= 11000
            THEN Mul[300, liquidity_factor]
            ELSE Mul[500, liquidity_factor]
        spread == Mul[theoretical_price, spread_pct]
        \* bid and ask in half units, so that spread / 2 is exact
        bid2 == 2 * theoretical_price - spread
        ask2 == 2 * theoretical_price + spread
    IN  [theoretical_price |-> theoretical_price,
         mark_price |-> (bid2 + ask2) \div 4,
         bid |-> Max(100, bid2 \div 2),
         ask |-> (ask2 + 1) \div 2,
         spread |-> spread,
         spread_percentage |-> spread_pct * 100]

\* the price of the underlying after a move, as the scenario loop adds it
moved_price(S, move, option_type) ==
    IF option_type = "call" THEN S + move.size ELSE S - Abs(move.size)

\* one entry of move_scenarios: price_change and rr_ratio of a move
move_scenario(S, K, T, r, sigma, option_type, mode, bs, move) ==
    LET scenario(moved) ==
            [name |-> move.name, change |-> moved - bs.price,
             rr |-> IF bs.price > 100 THEN Div[moved - bs.price, bs.price]
                    ELSE 0]
    IN  Only({scenario(moved) : moved \in
                {black_scholes_price(moved_price(S, move, option_type),
                                     K, T, r, sigma, option_type,
                                     mode).price}})

\* _calculate_day_trade_score: the primary move is the dict's first key
calculate_day_trade_score(bs, move_scenarios, prob_data) ==
    Mul[Abs(bs.delta), 4000]
    + Mul[move_scenarios[1].rr, 3000]
    + Mul[Div[SCALE, bs.price + SCALE], 2000]
    + Mul[prob_data.prob_itm, 1000]

\* the row dict of _generate_option_table for strike K, from the values the
\* loop body has computed; scaling is self.greeks_scaling as the dict reads it
option_row(S, K, option_type, cfg, bs, prob_data, move_scenarios, scaling) ==
    LET use_mark == cfg.mark_vs_theoretical = "mark"
        mark_info == calculate_mark_price(bs.price, S, K, option_type, SCALE)
        display_price == IF use_mark THEN mark_info.mark_price ELSE bs.price
    IN  [strike |-> K,
         type |-> IF option_type = "call" THEN "CALL" ELSE "PUT",
         premium |-> RoundTo[display_price, 100],
         theoretical_price |-> RoundTo[bs.price, 100],
         moneyness |-> IF option_type = "call" THEN Div[S, K] ELSE Div[K, S],
         delta |-> bs.delta,
         gamma |-> bs.gamma,
         theta |-> FracRound(bs.theta, 100),
         vega |-> FracRound(bs.vega, 1),
         rho |-> FracRound(bs.rho, 1),
         breakeven |-> RoundTo[prob_data.breakeven, 100],
         prob_profit |-> RoundTo[prob_data.prob_profit, 10],
         prob_itm |-> RoundTo[prob_data.prob_itm, 10],
         max_loss |-> RoundTo[display_price, 100],
         day_trade_score |->
             calculate_day_trade_score(bs, move_scenarios, prob_data),
         greeks_scaling |-> scaling,
         scenarios |->
             List([i \in 1..Len(move_scenarios) |->
                      [name |-> move_scenarios[i].name,
                       change |-> RoundTo[move_scenarios[i].change, 10],
                       rr |-> RoundTo[move_scenarios[i].rr, 10]]]),
         mark |-> IF use_mark
                  THEN <<RoundTo[mark_info.bid, 100],
                         RoundTo[mark_info.ask, 100],
                         RoundTo[mark_info.spread, 100],
                         IF display_price > 0
                         THEN RoundTo[
                                 100 * Div[mark_info.spread, display_price],
                                 1000]
                         ELSE 0>>
                  ELSE <<>>]

\* the loop body of _generate_option_table after bs has been priced: the
\* probabilities, the scenarios of every expected move, and the row
row_after_pricing(S, K, T, r, sigma, option_type, cfg, mode, bs, scaling) ==
    LET moves == cfg.expected_moves
        row(computed) ==
            option_row(S, K, option_type, cfg, bs, computed[1], computed[2],
                       scaling)
    IN  Only({row(computed) : computed \in
                {<<calculate_probability_profit(S, K, T, r, sigma,
                                                option_type, mode),
                   List([i \in 1..Len(moves) |->
                            move_scenario(S, K, T, r, sigma, option_type,
                                          mode, bs, moves[i])])>>}})

\* one pass of the loop of _generate_option_table
table_row(S, K, T, r, sigma, option_type, cfg, mode) ==
    Only({row_after_pricing(S, K, T, r, sigma, option_type, cfg, mode, bs,
                            mode) : bs \in
             {black_scholes_price(S, K, T, r, sigma, option_type, mode)}})

-----------------------------------------------------------------------------
(* OptionsAnalyzer: the ranked table *)

\* df.sort_values('day_trade_score', ascending=False) with the default
\* kind='quicksort', which is not stable: rows with equal scores keep their
\* order on one build ("keep") and do not on another ("reverse")
sort_values(rows, ties) ==
    LET n == Len(rows)
        before(j, i) ==
            \/ rows[j].day_trade_score > rows[i].day_trade_score
            \/ /\ rows[j].day_trade_score = rows[i].day_trade_score
               /\ IF ties = "keep" THEN j < i ELSE j > i
        place(i) == 1 + Cardinality({j \in 1..n : before(j, i)})
    IN  List([p \in 1..n |-> rows[CHOOSE i \in 1..n : place(i) = p]])

\* _generate_option_table(S, T, r, sigma, strike_range, option_type, ...)
generate_option_table(S, T, r, sigma, strike_range, option_type, cfg, mode, ties) ==
    Only({sort_values(rows, ties) : rows \in
             {List([i \in 1..Len(strike_range) |->
                       table_row(S, strike_range[i], T, r, sigma,
                                 option_type, cfg, mode)])}})

\* faulty variant of the premium filter: the bounds excluded
filter_premium_exclusive(rows, cfg) ==
    SelectSeq(rows, LAMBDA row : row.premium > cfg.min_premium
                                 /\ row.premium < cfg.max_premium)

\* combined_df[(premium >= min_premium) & (premium <= max_premium)]
filter_premium(rows, cfg) ==
    SelectSeq(rows, LAMBDA row : row.premium >= cfg.min_premium
                                 /\ row.premium <= cfg.max_premium)

\* whether the scenario loop raises TypeError: S + move_size with a string
moves_raise(cfg, strike_range) ==
    /\ strike_range # <<>>
    /\ \E i \in 1..Len(cfg.expected_moves) : cfg.expected_moves[i].kind = "str"

\* the end of analyze_options: pd.concat, the premium filter and the return
combined_table(call_df, put_df, cfg) ==
    [raised |-> "none", call_df |-> call_df, put_df |-> put_df,
     table |-> filter_premium(call_df \o put_df, cfg)]

\* analyze_options(S, T, r, sigma, dte_days) on an analyzer holding cfg and
\* mode: what it raises, or the tables it builds and the one it returns
analyze_options(S, T, r, sigma, dte_days, cfg, mode, ties) ==
    LET S_adjusted == IF cfg.price_adjustment # 0
                      THEN S + cfg.price_adjustment ELSE S
        tables(strike_range) ==
            IF moves_raise(cfg, strike_range)
            THEN [raised |-> "TypeError", call_df |-> <<>>, put_df |-> <<>>,
                  table |-> <<>>]
            ELSE Only({combined_table(dfs[1], dfs[2], cfg) : dfs \in
                         {<<generate_option_table(S_adjusted, T, r, sigma,
                                                  strike_range, "call", cfg,
                                                  mode, ties),
                            generate_option_table(S_adjusted, T, r, sigma,
                                                  strike_range, "put", cfg,
                                                  mode, ties)>>}})
    IN  Only({tables(strike_range) : strike_range \in
                {generate_strike_range(S_adjusted, dte_days, cfg)}})

-----------------------------------------------------------------------------
(* The analyzer as constructed, and the calls of its API *)

NoCall == [op |-> "none"]

\* no web request in flight
Idle == [pc |-> "idle"]

\* the web app's global analyzer: the underlying the instance was made
\* with, stored in upper case, and which instance it is
Upper(underlying) ==
    CASE underlying \in {"spy", "Spy", "SPY"} -> "SPY"
      [] underlying \in {"spx", "Spx", "SPX"} -> "SPX"
      [] OTHER -> underlying

Shared(underlying, instance) ==
    [underlying |-> Upper(underlying), instance |-> instance]

\* IBKRTradingBot before run_trading_session
NoSession == [pc |-> "idle"]

\* ThetaDecayBot before run_strategy
NoStrategy == [pc |-> "idle"]

\* OptionsAnalyzer.__init__('SPY')
Constructed ==
    /\ greeks_scaling = "daily"
    /\ prev_scaling = "daily"
    /\ config = DefaultConfig
    /\ ret = NoCall
    /\ rescaled = NoCall
    /\ changes = 0
    /\ analysis = Idle
    /\ comparison = Idle
    /\ analyzer = Shared("SPY", 1)
    /\ session = NoSession
    /\ strategy = NoStrategy

\* the arguments the calls are made with
Spots == {5940000, 5962200}

Strikes == {5940000, 6000000}

Times == {-40, 0, 40}

Rates == {440}

Sigmas == {1320}

OptionTypes == {"call", "put"}

ScalingInputs == ScalingModes \cup {"hourly"}

\* analyzer.set_greeks_scaling(scaling); a ValueError leaves the analyzer as
\* it was
SetGreeksScaling(scaling) ==
    /\ greeks_scaling' = set_greeks_scaling(greeks_scaling, scaling)
    /\ prev_scaling' = IF scaling \in ScalingModes THEN greeks_scaling
                       ELSE prev_scaling
    /\ UNCHANGED <<config, sort_ties, ret, rescaled, analysis, comparison>>

\* analyzer.black_scholes_price(S, K, T, r, sigma, option_type); raw is the
\* local dict greeks that the T > 0 branch hands to _scale_greeks; the
\* function has no raise statement and its float arithmetic raises nothing
BlackScholesPrice(S, K, T, r, sigma, option_type) ==
    /\ ret' = [op |-> "black_scholes_price", S |-> S, K |-> K, T |-> T,
               r |-> r, sigma |-> sigma, option_type |-> option_type,
               mode |-> greeks_scaling, prev_mode |-> prev_scaling,
               raised |-> "none",
               raw |-> IF T <= 0 THEN intrinsic_greeks(S, K, option_type)
                       ELSE raw_greeks(S, K, T, r, sigma, option_type),
               out |-> black_scholes_price(S, K, T, r, sigma, option_type,
                                           greeks_scaling)]
    /\ rescaled' = NoCall
    /\ UNCHANGED <<greeks_scaling, prev_scaling, config, sort_ties, analysis,
                 comparison>>

\* analyzer._scale_greeks(greeks, T) on the Greeks black_scholes_price
\* returned: a second application of the transform
ScaleGreeksAgain ==
    /\ ret.op = "black_scholes_price"
    /\ ret.T > 0
    /\ rescaled' = [op |-> "_scale_greeks", mode |-> greeks_scaling,
                    out |-> scale_greeks(ret.out, greeks_scaling)]
    /\ UNCHANGED <<greeks_scaling, prev_scaling, config, sort_ties, ret,
                 analysis, comparison>>

KernelInit == Constructed /\ sort_ties = "keep"

KernelNext ==
    \/ \E scaling \in ScalingInputs :
          SetGreeksScaling(scaling) /\ UNCHANGED <<changes, elsewhere>>
    \/ \E S \in Spots, K \in Strikes, T \in Times, r \in Rates,
          sigma \in Sigmas, option_type \in OptionTypes :
          BlackScholesPrice(S, K, T, r, sigma, option_type) /\ UNCHANGED <<changes, elsewhere>>
    \/ ScaleGreeksAgain /\ UNCHANGED <<changes, elsewhere>>

SpecKernel == KernelInit /\ [][KernelNext]_vars

-----------------------------------------------------------------------------
(* Claims about the pricing kernel and the scaling transform *)

PricedAtExpiry ==
    /\ ret.op = "black_scholes_price"
    /\ ret.T <= 0 /\ ret.S > 0 /\ ret.K > 0

\* C1: for S > 0, K > 0 and T <= 0, black_scholes_price returns the intrinsic
\* value as price, delta 1 or 0 (call, by S > K) or -1 or 0 (put, by S < K),
\* and gamma = theta = vega = rho = 0, in every greeks_scaling mode.
C1_ExpiryIsIntrinsic ==
    PricedAtExpiry =>
        /\ ret.option_type = "call" =>
              /\ ret.out.price = Max(ret.S - ret.K, 0)
              /\ ret.out.delta = (IF ret.S > ret.K THEN SCALE ELSE 0)
        /\ ret.option_type = "put" =>
              /\ ret.out.price = Max(ret.K - ret.S, 0)
              /\ ret.out.delta = (IF ret.S < ret.K THEN -SCALE ELSE 0)
        /\ ret.out.gamma = 0
        /\ ret.out.theta.n = 0 /\ ret.out.vega.n = 0 /\ ret.out.rho.n = 0

\* an in-the-money put priced at expiry while a non-daily mode is selected
C1_Witness ==
    /\ PricedAtExpiry
    /\ ret.option_type = "put" /\ ret.S < ret.K
    /\ ret.mode = "per_minute"
    /\ ret.out.price = ret.K - ret.S /\ ret.out.delta = -SCALE

PricedBeforeExpiry == ret.op = "black_scholes_price" /\ ret.T > 0

\* the factor of a mode on theta, as the fraction num / den
ThetaFactor(mode) ==
    IF mode = "per_minute" THEN [num |-> 1, den |-> 1440]
    ELSE IF mode = "annual" THEN [num |-> 365, den |-> 1]
    ELSE [num |-> 1, den |-> 1]

\* C4: after any sequence of set_greeks_scaling calls, black_scholes_price
\* with T > 0 returns the daily theta times the factor of the mode selected
\* at the call (1, 1/1440 or 365) and nothing of the modes selected before.
C4_ScaledOnceFromDaily ==
    PricedBeforeExpiry =>
        ret.out.theta =
            Frac[ret.raw.theta.n * ThetaFactor(ret.mode).num,
                 ret.raw.theta.d * ThetaFactor(ret.mode).den]

\* priced in per_minute after annual had been selected, with a theta that
\* is not zero
C4_Witness ==
    /\ PricedBeforeExpiry
    /\ ret.mode = "per_minute" /\ ret.prev_mode = "annual"
    /\ ret.raw.theta.n # 0

\* C5 as claimed: every mode leaves price, delta, gamma and rho unchanged.
C5_RhoUnchanged ==
    PricedBeforeExpiry =>
        /\ ret.out.price = ret.raw.price
        /\ ret.out.delta = ret.raw.delta
        /\ ret.out.gamma = ret.raw.gamma
        /\ ret.out.rho = ret.raw.rho

\* C5, amended: every mode leaves price, delta and gamma unchanged; daily
\* and annual leave rho unchanged and per_minute divides rho by 100; only
\* theta, vega and (in per_minute) rho may differ from the daily baseline.
C5_FrameOfScaling ==
    PricedBeforeExpiry =>
        /\ ret.out.price = ret.raw.price
        /\ ret.out.delta = ret.raw.delta
        /\ ret.out.gamma = ret.raw.gamma
        /\ ret.out.d1 = ret.raw.d1 /\ ret.out.d2 = ret.raw.d2
        /\ ret.mode # "per_minute" => ret.out.rho = ret.raw.rho
        /\ ret.mode = "per_minute" =>
              ret.out.rho = Frac[ret.raw.rho.n, ret.raw.rho.d * 100]

\* priced in per_minute with a rho that is not zero, so that it changed
C5_Witness ==
    /\ PricedBeforeExpiry
    /\ ret.mode = "per_minute"
    /\ ret.raw.rho.n # 0
    /\ ret.out.rho # ret.raw.rho

\* C6 as claimed: with the same mode selected, applying _scale_greeks to
\* Greeks it has already scaled gives the same Greeks (no double scaling).
C6_ScaleIdempotent ==
    (rescaled.op = "_scale_greeks" /\ rescaled.mode = ret.mode) =>
        rescaled.out = ret.out

-----------------------------------------------------------------------------
(* The strike ladder under any configuration *)

LadderSpots == {1000000, 1012500, 6045300}

LadderIncrements == {25000, 20000, 50000}

LadderWidths == {350000, 50000, 30000, 0}

DteDays == {0, 1, 4, 7, 10, 30}

\* analyzer.update_config(**kwargs)
UpdateConfig(kwargs) ==
    /\ config' = update_config(config, kwargs)
    /\ UNCHANGED <<greeks_scaling, prev_scaling, sort_ties, ret, rescaled,
                   analysis, comparison>>

\* analyzer.generate_strike_range(S, dte)
GenerateStrikeRange(S, dte) ==
    /\ ret' = [op |-> "generate_strike_range", S |-> S, dte |-> dte,
               increment |-> config.strike_increment,
               width |-> config.strike_range_width,
               out14 |-> strike_range14(S, dte, config.strike_increment,
                                        config.strike_range_width)]
    /\ UNCHANGED <<greeks_scaling, prev_scaling, config, sort_ties, rescaled,
                   analysis, comparison>>

LadderNext ==
    \/ \E value \in LadderIncrements :
          UpdateConfig([strike_increment |-> value]) /\ UNCHANGED <<changes, elsewhere>>
    \/ \E value \in LadderWidths :
          UpdateConfig([strike_range_width |-> value]) /\ UNCHANGED <<changes, elsewhere>>
    \/ \E S \in LadderSpots, dte \in DteDays :
          GenerateStrikeRange(S, dte) /\ UNCHANGED <<changes, elsewhere>>

SpecLadder == KernelInit /\ [][LadderNext]_vars

\* C10 as claimed: for S > 0, strike_increment > 0, strike_range_width >= 0
\* and dte >= 0, every strike generate_strike_range returns is a multiple
\* of strike_increment.
C10_StrikesOnGrid ==
    ret.op = "generate_strike_range" =>
        \A i \in 1..Len(ret.out14) : ret.out14[i] % (14 * ret.increment) = 0

\* C11 as claimed: for S > 0, strike_increment > 0, strike_range_width >= 0
\* and dte >= 0, the ladder generate_strike_range returns contains the ATM
\* strike round(S / increment) * increment exactly once.
C11_AtmExactlyOnce ==
    ret.op = "generate_strike_range" =>
        Cardinality({i \in 1..Len(ret.out14) :
                        ret.out14[i]
                        = 14 * round_ratio(ret.S, ret.increment)
                             * ret.increment}) = 1

\* C12 as claimed: whenever strike_range_width is an exact multiple of
\* strike_increment, the number of strikes generate_strike_range returns
\* is odd, for every dte.
C12_OddCount ==
    (ret.op = "generate_strike_range" /\ ret.width % ret.increment = 0) =>
        Len(ret.out14) % 2 = 1

-----------------------------------------------------------------------------
(* Analyses on one analyzer between changes of its ambient state *)

\* the ladder of the analysed sessions spans NarrowSteps increments on each
\* side of the money at 7 days
NarrowSteps == 2

\* set_greeks_scaling and update_config calls made in a session
MaxChanges == 1

AnalysisSpots == {1000000, 1013000}

\* (T, dte_days): one day and seven days to expiry
AnalysisTerms == {<<40, 1>>, <<278, 7>>}

AnalysisSigmas == {500}

\* the keyword arguments of the update_config calls
ConfigUpdates ==
    {[min_premium |-> 0, max_premium |-> 30000],
     [max_premium |-> 30000],
     [price_adjustment |-> 13000],
     [mark_vs_theoretical |-> "mark"]}

\* Python's None
None == "None"

\* a dict entry that holds the analyzer's own config dict, not a copy
SelfConfig == "self.config"

\* df.head(3)['strike'].tolist()
head_strikes(df) == [i \in 1..Min(3, Len(df)) |-> df[i].strike]

\* the premium of df.iloc[(df['moneyness'] - 1.0).abs().argsort()[:1]],
\* None for an empty frame; of rows equally near the money the first
atm_premium(df) ==
    IF df = <<>> THEN None
    ELSE df[CHOOSE i \in 1..Len(df) :
               \A j \in 1..Len(df) :
                   \/ Abs(df[i].moneyness - SCALE) < Abs(df[j].moneyness - SCALE)
                   \/ /\ Abs(df[i].moneyness - SCALE)
                             = Abs(df[j].moneyness - SCALE)
                      /\ i <= j].premium

\* _generate_summary(S, T, r, sigma, dte_days, call_df, put_df, combined_df)
\* (without underlying and analysis_timestamp)
generate_summary(S, T, r, sigma, dte_days, call_df, put_df, combined_df) ==
    [current_price |-> S,
     dte_days |-> dte_days,
     implied_vol |-> sigma,
     risk_free_rate |-> r,
     total_options_analyzed |-> Len(combined_df),
     atm_call_premium |-> atm_premium(call_df),
     atm_put_premium |-> atm_premium(put_df),
     best_call_strikes |-> head_strikes(call_df),
     best_put_strikes |-> head_strikes(put_df),
     config_used |-> SelfConfig]

\* analyzer.analyze_options(S, T, r, sigma, dte_days): out holds the frames
\* and the filtered table, summary the analysis_summary returned with it
\* (without the price_adjustment entry, which repeats the adjustment)
AnalyzeOptions(S, T, r, sigma, dte_days) ==
    /\ ret' = Only({[op |-> "analyze_options", S |-> S, T |-> T, r |-> r,
                      sigma |-> sigma, dte_days |-> dte_days,
                      cfg |-> config, mode |-> greeks_scaling,
                      out |-> out,
                      summary |->
                          IF out.raised # "none" THEN None
                          ELSE generate_summary(
                                   IF config.price_adjustment # 0
                                   THEN S + config.price_adjustment ELSE S,
                                   T, r, sigma, dte_days, out.call_df,
                                   out.put_df, out.table)] :
                     out \in {analyze_options(S, T, r, sigma, dte_days,
                                              config, greeks_scaling,
                                              sort_ties)}})
    /\ UNCHANGED <<greeks_scaling, prev_scaling, config, sort_ties, rescaled,
                   analysis, comparison>>

Counted ==
    /\ changes < MaxChanges
    /\ changes' = changes + 1
    /\ UNCHANGED elsewhere

\* the analyzer as constructed, its ladder narrowed by update_config
AnalyzeInit ==
    /\ greeks_scaling = "daily"
    /\ prev_scaling = "daily"
    /\ config = update_config(DefaultConfig,
                              [strike_range_width |->
                                  NarrowSteps * DefaultConfig.strike_increment])
    /\ sort_ties \in {"keep", "reverse"}
    /\ ret = NoCall
    /\ rescaled = NoCall
    /\ changes = 0
    /\ analysis = Idle
    /\ comparison = Idle
    /\ analyzer = Shared("SPY", 1)
    /\ session = NoSession
    /\ strategy = NoStrategy

AnalyzeNext ==
    \/ \E scaling \in ScalingModes : SetGreeksScaling(scaling) /\ Counted
    \/ \E kwargs \in ConfigUpdates : UpdateConfig(kwargs) /\ Counted
    \/ \E S \in AnalysisSpots, term \in AnalysisTerms, r \in Rates,
          sigma \in AnalysisSigmas :
          AnalyzeOptions(S, term[1], r, sigma, term[2]) /\ UNCHANGED <<changes, elsewhere>>

SpecAnalyze == AnalyzeInit /\ [][AnalyzeNext]_vars

Analyzed == ret.op = "analyze_options" /\ ret.out.raised = "none"

SameArguments(a, b) ==
    /\ a.S = b.S /\ a.T = b.T /\ a.r = b.r
    /\ a.sigma = b.sigma /\ a.dte_days = b.dte_days

\* C3 as claimed: two analyze_options calls with identical (S, T, r, sigma,
\* dte_days) on one analyzer return identical tables, whatever
\* set_greeks_scaling or update_config calls were made between them.
C3_SameArgumentsSameTable ==
    [][(/\ ret.op = "analyze_options"
        /\ ret'.op = "analyze_options"
        /\ SameArguments(ret, ret'))
       => ret'.out.table = ret.out.table]_vars

\* C7 as claimed: the table analyze_options returns is ordered by
\* day_trade_score descending, calls and puts together.
C7_TableDescending ==
    Analyzed =>
        \A i, j \in 1..Len(ret.out.table) :
            i < j => ret.out.table[i].day_trade_score
                         >= ret.out.table[j].day_trade_score

\* C8 as claimed: rows of the returned table with equal day_trade_score
\* appear in strike-ascending order.
C8_TiesStrikeAscending ==
    Analyzed =>
        \A i, j \in 1..Len(ret.out.table) :
            (i < j /\ ret.out.table[i].day_trade_score
                          = ret.out.table[j].day_trade_score)
            => ret.out.table[i].strike <= ret.out.table[j].strike

InBand(row, cfg) ==
    row.premium >= cfg.min_premium /\ row.premium <= cfg.max_premium

RowsOf(table) == {table[i] : i \in 1..Len(table)}

\* C9: the table analyze_options returns holds exactly the generated
\* (strike, type) rows with min_premium <= premium <= max_premium, bounds
\* included, each once.
C9_ExactlyTheBand ==
    Analyzed =>
        LET generated == RowsOf(ret.out.call_df) \cup RowsOf(ret.out.put_df)
        IN  /\ RowsOf(ret.out.table) = {row \in generated : InBand(row, ret.cfg)}
            /\ \A i, j \in 1..Len(ret.out.table) :
                  (ret.out.table[i].strike = ret.out.table[j].strike
                   /\ ret.out.table[i].type = ret.out.table[j].type) => i = j

\* C24 as claimed: every strike of summary['best_call_strikes'] (of
\* 'best_put_strikes') is the strike of a CALL (PUT) row of the filtered
\* table the same analyze_options call returns.
C24_BestStrikesAreListed ==
    Analyzed =>
        /\ \A i \in 1..Len(ret.summary.best_call_strikes) :
              \E row \in RowsOf(ret.out.table) :
                  /\ row.type = "CALL"
                  /\ row.strike = ret.summary.best_call_strikes[i]
        /\ \A i \in 1..Len(ret.summary.best_put_strikes) :
              \E row \in RowsOf(ret.out.table) :
                  /\ row.type = "PUT"
                  /\ row.strike = ret.summary.best_put_strikes[i]

\* what summary['config_used'] of the last analysis reads as: the dict the
\* entry holds, which is the analyzer's config as it is now
ConfigUsed ==
    IF ret.summary.config_used = SelfConfig THEN config
    ELSE ret.summary.config_used

\* C25 as claimed: the config_used entry of a summary analyze_options has
\* returned does not change when update_config is called on the analyzer
\* afterwards.
C25_SummaryIsSnapshot ==
    [][(Analyzed /\ ret' = ret) => ConfigUsed' = ConfigUsed]_vars

\* an analysis that kept a row whose premium is exactly min_premium,
\* dropped a row above max_premium, and generated a row per strike and type
C9_Witness ==
    /\ Analyzed
    /\ \E row \in RowsOf(ret.out.table) : row.premium = ret.cfg.min_premium
    /\ \E row \in RowsOf(ret.out.call_df) :
          row.premium > ret.cfg.max_premium /\ row \notin RowsOf(ret.out.table)
    /\ Len(ret.out.call_df) = 2 * NarrowSteps + 1

-----------------------------------------------------------------------------
(* The web application: two requests on the shared analyzer *)

(***************************************************************************)
(* Flask serves each request on its own thread, and get_analyzer hands     *)
(* every request for 'SPY' the one module-level OptionsAnalyzer.  A thread *)
(* may be preempted anywhere; the steps below let the analysis request     *)
(* yield between the passes of _generate_option_table and the comparison   *)
(* request yield between its calls on the analyzer.  Preemption inside a   *)
(* pass adds interleavings to these and removes none.                      *)
(***************************************************************************)

\* current_price of the posted JSON; 0 when the field is missing
WebPrices == {0, 6045300, 6050000}

\* dte of the posted JSON
WebDtes == {0, 1}

\* (underlying_price, strike, option_type) of a comparison request
ComparisonInputs == {<<6045300, 6050000, "call">>, <<6045300, 6000000, "put">>}

scalings == <<"daily", "per_minute", "annual">>

\* POST /api/analyze up to the ladder of analyzer.analyze_options: the
\* validation, get_analyzer, update_config(current_price=...); iv and
\* risk_free_rate are the request's percentages
AnalyzeRequest(current_price, dte, iv, risk_free_rate) ==
    /\ analysis.pc = "idle"
    /\ IF dte <= 0 \/ dte > 365
       THEN /\ analysis' = [pc |-> "failed", error |-> "ValueError"]
            /\ UNCHANGED config
       ELSE IF current_price <= 0
       THEN \* OptionsAnalyzer has no get_current_price
            /\ analysis' = [pc |-> "failed", error |-> "AttributeError"]
            /\ UNCHANGED config
       ELSE /\ config' = update_config(config,
                                       [current_price |-> current_price])
            /\ analysis' =
                  [pc |-> "calls",
                   S |-> IF config.price_adjustment # 0
                         THEN current_price + config.price_adjustment
                         ELSE current_price,
                   T |-> Div[dte * SCALE, 252 * SCALE],
                   r |-> Div[risk_free_rate, 100 * SCALE],
                   sigma |-> Div[iv, 100 * SCALE],
                   dte_days |-> dte,
                   strike_range |->
                       generate_strike_range(
                           IF config.price_adjustment # 0
                           THEN current_price + config.price_adjustment
                           ELSE current_price, dte, config),
                   call_df |-> <<>>, put_df |-> <<>>, out |-> <<>>]
    /\ UNCHANGED <<greeks_scaling, prev_scaling, sort_ties, ret, rescaled,
                   changes, comparison,
                   elsewhere>>

\* the pass of _generate_option_table over the calls
AnalyzeCallTable ==
    /\ analysis.pc = "calls"
    /\ analysis' =
          IF moves_raise(config, analysis.strike_range)
          THEN [pc |-> "failed", error |-> "TypeError"]
          ELSE [analysis EXCEPT
                   !.pc = "puts",
                   !.call_df =
                       generate_option_table(
                           analysis.S, analysis.T, analysis.r, analysis.sigma,
                           analysis.strike_range, "call", config,
                           greeks_scaling, sort_ties)]
    /\ UNCHANGED <<greeks_scaling, prev_scaling, config, sort_ties, ret,
                   rescaled, changes, comparison,
                   elsewhere>>

\* the pass of _generate_option_table over the puts
AnalyzePutTable ==
    /\ analysis.pc = "puts"
    /\ analysis' =
          [analysis EXCEPT
              !.pc = "combine",
              !.put_df =
                  generate_option_table(
                      analysis.S, analysis.T, analysis.r, analysis.sigma,
                      analysis.strike_range, "put", config, greeks_scaling,
                      sort_ties)]
    /\ UNCHANGED <<greeks_scaling, prev_scaling, config, sort_ties, ret,
                   rescaled, changes, comparison,
                   elsewhere>>

\* pd.concat, the premium filter and the JSON response
AnalyzeRespond ==
    /\ analysis.pc = "combine"
    /\ analysis' =
          [analysis EXCEPT
              !.pc = "done",
              !.out = combined_table(analysis.call_df, analysis.put_df,
                                     config).table]
    /\ UNCHANGED <<greeks_scaling, prev_scaling, config, sort_ties, ret,
                   rescaled, changes, comparison,
                   elsewhere>>

\* POST /api/greeks-comparison up to get_analyzer; iv and risk_free_rate
\* are the request's decimals
ComparisonRequest(underlying_price, strike, dte, iv, risk_free_rate, option_type) ==
    /\ comparison.pc = "idle"
    /\ comparison' = [pc |-> "set", next |-> 1, S |-> underlying_price,
                      K |-> strike, T |-> Div[dte * SCALE, 252 * SCALE],
                      r |-> risk_free_rate, sigma |-> iv,
                      option_type |-> option_type, results |-> <<>>]
    /\ UNCHANGED <<greeks_scaling, prev_scaling, config, sort_ties, ret,
                   rescaled, changes, analysis,
                   elsewhere>>

\* analyzer.set_greeks_scaling(scaling) of the loop over scalings
ComparisonSetScaling ==
    /\ comparison.pc = "set"
    /\ greeks_scaling' =
          set_greeks_scaling(greeks_scaling, scalings[comparison.next])
    /\ prev_scaling' = greeks_scaling
    /\ comparison' = [comparison EXCEPT !.pc = "price"]
    /\ UNCHANGED <<config, sort_ties, ret, rescaled, changes, analysis,
                   elsewhere>>

\* results[scaling] = analyzer.black_scholes_price(...) of the loop
ComparisonPrice ==
    /\ comparison.pc = "price"
    /\ comparison' =
          [comparison EXCEPT
              !.pc = IF comparison.next = Len(scalings) THEN "reset"
                     ELSE "set",
              !.next = comparison.next + 1,
              !.results =
                  Append(@, black_scholes_price(
                                comparison.S, comparison.K, comparison.T,
                                comparison.r, comparison.sigma,
                                comparison.option_type, greeks_scaling))]
    /\ UNCHANGED <<greeks_scaling, prev_scaling, config, sort_ties, ret,
                   rescaled, changes, analysis,
                   elsewhere>>

\* analyzer.set_greeks_scaling('daily') after the loop, and the response
ComparisonReset ==
    /\ comparison.pc = "reset"
    /\ greeks_scaling' = set_greeks_scaling(greeks_scaling, "daily")
    /\ prev_scaling' = greeks_scaling
    /\ comparison' = [comparison EXCEPT !.pc = "done"]
    /\ UNCHANGED <<config, sort_ties, ret, rescaled, changes, analysis,
                   elsewhere>>

\* get_analyzer('SPY') has created the shared analyzer
WebInit ==
    /\ Constructed
    /\ sort_ties \in {"keep", "reverse"}

WebNext ==
    \/ \E current_price \in WebPrices, dte \in WebDtes :
          AnalyzeRequest(current_price, dte, 15 * SCALE, 44000)
    \/ AnalyzeCallTable
    \/ AnalyzePutTable
    \/ AnalyzeRespond
    \/ \E input \in ComparisonInputs :
          ComparisonRequest(input[1], input[2], 7, 1500, 440, input[3])
    \/ ComparisonSetScaling
    \/ ComparisonPrice
    \/ ComparisonReset

SpecWeb == WebInit /\ [][WebNext]_vars

\* theta, vega and rho of the rows of a table
ScaledGreeks(table) ==
    [i \in 1..Len(table) |->
        [strike |-> table[i].strike, type |-> table[i].type,
         theta |-> table[i].theta, vega |-> table[i].vega,
         rho |-> table[i].rho]]

\* C2 as claimed: an analysis request that ran concurrently with a
\* greeks_comparison request returns rows whose theta, vega and rho are the
\* ones it computes when it runs alone, in 'daily' scaling.
C2_ConcurrentAsAlone ==
    analysis.pc = "done" =>
        ScaledGreeks(analysis.out)
        = ScaledGreeks(analyze_options(analysis.S, analysis.T, analysis.r,
                                       analysis.sigma, analysis.dte_days,
                                       config, "daily", sort_ties).table)

-----------------------------------------------------------------------------
(* OptionsAnalyzer: the implied volatility solver *)

\* the bracket of brentq, 0.0001 and 5.0
IvLow == 1

IvHigh == 5 * SCALE

\* bs_price_diff(sigma), the function brentq is given
bs_price_diff(market_price, S, K, T, r, option_type, mode, sigma) ==
    black_scholes_price(S, K, T, r, sigma, option_type, mode).price
    - market_price

\* whether brentq raises ValueError: f(a) and f(b) must have different signs
same_sign(fa, fb) == (fa > 0 /\ fb > 0) \/ (fa < 0 /\ fb < 0)

\* the iteration of brentq on a bracket [a, b] over which f changes sign:
\* the bracket is narrowed around the change of sign down to the
\* resolution, and the end with the smaller |f| is the root
narrowed[market_price \in Int, S \in Int, K \in Int, T \in Int, r \in Int, option_type \in STRING, mode \in STRING, a \in Int, b \in Int] ==
    LET mid == (a + b) \div 2
        step(f) ==
            IF b - a <= 1
            THEN IF Abs(f[a]) <= Abs(f[b]) THEN a ELSE b
            ELSE IF f[mid] = 0 THEN mid
            ELSE IF (f[a] < 0) = (f[mid] < 0)
            THEN narrowed[market_price, S, K, T, r, option_type, mode, mid, b]
            ELSE narrowed[market_price, S, K, T, r, option_type, mode, a, mid]
    IN  Only({step(f) : f \in
                {[sigma \in {a, mid, b} |->
                     bs_price_diff(market_price, S, K, T, r, option_type,
                                   mode, sigma)]}})

\* scipy.optimize.brentq(f, a, b, xtol=1e-6) when it does not raise: an end
\* of the bracket where f is 0, else the root the iteration narrows down
brentq(market_price, S, K, T, r, option_type, mode) ==
    LET root(f) ==
            IF f[IvLow] = 0 THEN IvLow
            ELSE IF f[IvHigh] = 0 THEN IvHigh
            ELSE narrowed[market_price, S, K, T, r, option_type, mode,
                          IvLow, IvHigh]
    IN  Only({root(f) : f \in
                {[sigma \in {IvLow, IvHigh} |->
                     bs_price_diff(market_price, S, K, T, r, option_type,
                                   mode, sigma)]}})

\* the dict of the try block, from the root iv
iv_solution(iv, market_price, S, K, T, r, option_type, mode) ==
    LET iv_high   == Mul[iv, 11000]
        iv_low    == Mul[iv, 9000]
        solution(price_at) ==
            [implied_volatility |-> iv,
             market_price |-> market_price,
             theoretical_price |-> price_at[iv].price,
             price_difference |-> market_price - price_at[iv].price,
             iv_high |-> iv_high,
             iv_low |-> iv_low,
             price_at_iv_high |-> price_at[iv_high].price,
             price_at_iv_low |-> price_at[iv_low].price,
             vega |-> price_at[iv].vega,
             delta |-> price_at[iv].delta,
             gamma |-> price_at[iv].gamma,
             theta |-> price_at[iv].theta,
             iv_percentile |-> None]
    IN  Only({solution(price_at) : price_at \in
                {[sigma \in {iv, iv_high, iv_low} |->
                     black_scholes_price(S, K, T, r, sigma, option_type,
                                         mode)]}})

\* the dict of the except ValueError block
iv_error(market_price) ==
    [implied_volatility |-> None,
     error |-> "Could not converge on IV solution",
     market_price |-> market_price,
     possible_issues |-> <<"Price may be outside reasonable bounds",
                           "Option may be deeply ITM/OTM",
                           "Very short/long time to expiration">>]

\* implied_volatility_calculator(market_price, S, K, T, r, option_type)
\* with self.greeks_scaling = mode
implied_volatility_calculator(market_price, S, K, T, r, option_type, mode) ==
    LET try(f) ==
            IF same_sign(f[IvLow], f[IvHigh])
            THEN iv_error(market_price)
            ELSE Only({iv_solution(iv, market_price, S, K, T, r, option_type,
                                   mode) :
                          iv \in {brentq(market_price, S, K, T, r,
                                         option_type, mode)}})
    IN  Only({try(f) : f \in
                {[sigma \in {IvLow, IvHigh} |->
                     bs_price_diff(market_price, S, K, T, r, option_type,
                                   mode, sigma)]}})

-----------------------------------------------------------------------------
(* OptionsAnalyzer: expected moves *)

\* calculate_expected_move(S, sigma, T) for T >= 0
calculate_expected_move(S, sigma, T) ==
    LET expected_move_1sigma == Mul[Mul[S, sigma], Sqrt[T]]
    IN  [sigma_1 |-> expected_move_1sigma,
         sigma_2 |-> expected_move_1sigma * 2,
         sigma_0_5 |-> expected_move_1sigma \div 2,
         percentage_1sigma |-> Div[expected_move_1sigma, S] * 100]

\* get_atm_straddle_price(S, T, r, sigma) with self.config = cfg and
\* self.greeks_scaling = mode (without total_vega and total_theta, which
\* no caller in the model reads)
get_atm_straddle_price(S, T, r, sigma, cfg, mode) ==
    LET increment  == cfg.strike_increment
        atm_strike == round_ratio(S, increment) * increment
        straddle(call_result, put_result) ==
            [atm_strike |-> atm_strike,
             call_price |-> call_result.price,
             put_price |-> put_result.price,
             straddle_price |-> call_result.price + put_result.price,
             straddle_expected_move |->
                 call_result.price + put_result.price,
             breakeven_upper |->
                 atm_strike + call_result.price + put_result.price,
             breakeven_lower |->
                 atm_strike - (call_result.price + put_result.price),
             call_delta |-> call_result.delta,
             put_delta |-> put_result.delta]
    IN  Only({straddle(results[1], results[2]) : results \in
                {<<black_scholes_price(S, atm_strike, T, r, sigma, "call",
                                       mode),
                   black_scholes_price(S, atm_strike, T, r, sigma, "put",
                                       mode)>>}})

\* current_moves.get(key, 0)
get_move(current_moves, key) ==
    IF \E i \in 1..Len(current_moves) : current_moves[i].name = key
    THEN current_moves[CHOOSE i \in 1..Len(current_moves) :
                           current_moves[i].name = key].size
    ELSE 0

\* the threshold of the recommendation, 0.5
InvestigateThreshold == SCALE \div 2

\* compare_expected_move_methods(S, T, r, sigma)
compare_expected_move_methods(S, T, r, sigma, cfg, mode) ==
    LET current_moves == cfg.expected_moves
        comparison_of(formula_moves, straddle_info) ==
            [underlying_price |-> S,
             iv_annual |-> sigma,
             time_to_expiration_years |-> T,
             time_to_expiration_days |-> T * 252,
             formula_1sigma_move |-> formula_moves.sigma_1,
             formula_2sigma_move |-> formula_moves.sigma_2,
             formula_percentage |-> formula_moves.percentage_1sigma,
             atm_strike |-> straddle_info.atm_strike,
             straddle_price |-> straddle_info.straddle_price,
             straddle_expected_move |-> straddle_info.straddle_expected_move,
             straddle_breakevens |->
                 [upper |-> straddle_info.breakeven_upper,
                  lower |-> straddle_info.breakeven_lower],
             current_target_move |-> get_move(current_moves, "target_move"),
             current_conservative |->
                 get_move(current_moves, "conservative"),
             current_aggressive |-> get_move(current_moves, "aggressive"),
             formula_vs_straddle_diff |->
                 Abs(formula_moves.sigma_1 - straddle_info.straddle_price),
             formula_vs_current_diff |->
                 Abs(formula_moves.sigma_1
                     - get_move(current_moves, "target_move")),
             recommendation |->
                 IF Abs(formula_moves.sigma_1 - straddle_info.straddle_price)
                        < InvestigateThreshold
                 THEN "formula" ELSE "investigate"]
    IN  Only({comparison_of(methods[1], methods[2]) : methods \in
                {<<calculate_expected_move(S, sigma, T),
                   get_atm_straddle_price(S, T, r, sigma, cfg, mode)>>}})

-----------------------------------------------------------------------------
(* The solver, the probabilities, the mark price and the comparison of      *)
(* expected moves, each called on an analyzer as constructed                *)

\* market prices: nothing, the intrinsic value of the call, a price within
\* reach of the formula, and one beyond its reach
MarketPrices == {0, 60000, 70000, 1000000}

SolverSpots == {6000000}

SolverStrikes == {5940000}

\* at expiry and a day before
SolverTimes == {0, 40}

\* theoretical prices: nothing, half a cent, one cent, about one cent, and
\* the price of an option near the money
TheoreticalPrices == {0, 50, 100, 101, 32900}

\* liquidity_factor 1.0 and 2.0
LiquidityFactors == {10000, 20000}

ComparisonSpots == {1000000, 1003000, 1005000, 1007000, 6050000}

ComparisonTimes == {0, 40, 278}

ComparisonSigmas == {1500}

\* analyzer.implied_volatility_calculator(market_price, S, K, T, r,
\* option_type); f_low and f_high are bs_price_diff at the ends of the
\* bracket; except ValueError lets nothing out that brentq raises here
ImpliedVolatilityCalculator(market_price, S, K, T, r, option_type) ==
    /\ ret' = Only({[op |-> "implied_volatility_calculator",
                      market_price |-> market_price, S |-> S, K |-> K,
                      T |-> T, r |-> r, option_type |-> option_type,
                      f_low |-> f[IvLow], f_high |-> f[IvHigh],
                      raised |-> "none",
                      out |-> implied_volatility_calculator(
                                  market_price, S, K, T, r, option_type,
                                  greeks_scaling)] :
                     f \in {[sigma \in {IvLow, IvHigh} |->
                               bs_price_diff(market_price, S, K, T, r,
                                             option_type, greeks_scaling,
                                             sigma)]}})
    /\ UNCHANGED <<greeks_scaling, prev_scaling, config, sort_ties, rescaled,
                   analysis, comparison>>

\* analyzer.calculate_probability_profit(S, K, T, r, sigma, option_type)
CalculateProbabilityProfit(S, K, T, r, sigma, option_type) ==
    /\ ret' = [op |-> "calculate_probability_profit", S |-> S, K |-> K,
               T |-> T, r |-> r, sigma |-> sigma,
               option_type |-> option_type, raised |-> "none",
               out |-> calculate_probability_profit(S, K, T, r, sigma,
                                                    option_type,
                                                    greeks_scaling)]
    /\ UNCHANGED <<greeks_scaling, prev_scaling, config, sort_ties, rescaled,
                   analysis, comparison>>

\* analyzer.calculate_mark_price(theoretical_price, S, K, option_type,
\* liquidity_factor)
CalculateMarkPrice(theoretical_price, S, K, option_type, liquidity_factor) ==
    /\ ret' = [op |-> "calculate_mark_price",
               theoretical_price |-> theoretical_price, S |-> S, K |-> K,
               option_type |-> option_type,
               liquidity_factor |-> liquidity_factor,
               out |-> calculate_mark_price(theoretical_price, S, K,
                                            option_type, liquidity_factor)]
    /\ UNCHANGED <<greeks_scaling, prev_scaling, config, sort_ties, rescaled,
                   analysis, comparison>>

\* analyzer.compare_expected_move_methods(S, T, r, sigma)
CompareExpectedMoveMethods(S, T, r, sigma) ==
    /\ ret' = [op |-> "compare_expected_move_methods", S |-> S, T |-> T,
               r |-> r, sigma |-> sigma,
               out |-> compare_expected_move_methods(S, T, r, sigma, config,
                                                     greeks_scaling)]
    /\ UNCHANGED <<greeks_scaling, prev_scaling, config, sort_ties, rescaled,
                   analysis, comparison>>

DerivedNext ==
    \/ \E market_price \in MarketPrices, S \in SolverSpots,
          K \in SolverStrikes, T \in SolverTimes, r \in Rates,
          option_type \in OptionTypes :
          ImpliedVolatilityCalculator(market_price, S, K, T, r, option_type)
          /\ UNCHANGED <<changes, elsewhere>>
    \/ \E S \in Spots, K \in Strikes, T \in Times, r \in Rates,
          sigma \in Sigmas, option_type \in OptionTypes :
          CalculateProbabilityProfit(S, K, T, r, sigma, option_type)
          /\ UNCHANGED <<changes, elsewhere>>
    \/ \E theoretical_price \in TheoreticalPrices, S \in Spots, K \in Strikes,
          option_type \in OptionTypes, liquidity_factor \in LiquidityFactors :
          CalculateMarkPrice(theoretical_price, S, K, option_type,
                             liquidity_factor)
          /\ UNCHANGED <<changes, elsewhere>>
    \/ \E S \in ComparisonSpots, T \in ComparisonTimes, r \in Rates,
          sigma \in ComparisonSigmas :
          CompareExpectedMoveMethods(S, T, r, sigma) /\ UNCHANGED <<changes, elsewhere>>

SpecDerived == KernelInit /\ [][DerivedNext]_vars

Solved == ret.op = "implied_volatility_calculator"

\* the structured error result of the solver
StructuredError ==
    /\ ret.raised = "none"
    /\ "error" \in DOMAIN ret.out
    /\ "possible_issues" \in DOMAIN ret.out
    /\ ret.out.implied_volatility = None

\* C13 as claimed: implied_volatility_calculator never raises, and returns
\* the structured error (implied_volatility None with error and
\* possible_issues) whenever the price difference has no change of sign
\* over the bracket [0.0001, 5.0] or T <= 0.
C13_UnsolvableIsError ==
    (Solved /\ (ret.T <= 0 \/ same_sign(ret.f_low, ret.f_high))) =>
        StructuredError

\* C16 as claimed: for T <= 0 calculate_probability_profit returns
\* prob_itm = 1 when the option is in the money and 0 otherwise, the
\* division by sigma * sqrt(T) not being evaluated.
C16_IndicatorAtExpiry ==
    (ret.op = "calculate_probability_profit" /\ ret.T <= 0) =>
        ret.out.prob_itm =
            (IF \/ ret.option_type = "call" /\ ret.S > ret.K
                \/ ret.option_type = "put" /\ ret.S < ret.K
             THEN SCALE ELSE 0)

Compared == ret.op = "compare_expected_move_methods"

\* C17 as claimed: compare_expected_move_methods recommends 'investigate'
\* exactly when |formula 1-sigma move - straddle price| exceeds 0.5, and
\* 'formula' otherwise, a difference of exactly 0.5 included.
C17_InvestigateAboveThreshold ==
    Compared =>
        ret.out.recommendation =
            (IF Abs(ret.out.formula_1sigma_move - ret.out.straddle_price)
                    > InvestigateThreshold
             THEN "investigate" ELSE "formula")

Marked == ret.op = "calculate_mark_price" /\ ret.theoretical_price >= 0

MinimumBid == SCALE \div 100

C26_MarketNotCrossed ==
    Marked =>
        /\ ret.out.bid <= ret.out.mark_price
        /\ ret.out.mark_price <= ret.out.ask

-----------------------------------------------------------------------------
(* The pricing kernel on arguments of any kind *)

\* a put deep in the money besides the spots of the kernel
AnySpots == Spots \cup {5800000}

\* a volatility of zero and a negative one besides the valid one
AnySigmas == Sigmas \cup {0, -1320}

\* a kind that is neither 'call' nor 'put'
AnyTypes == OptionTypes \cup {"straddle"}

\* calls on an analyzer as constructed: price, delta and gamma are the same
\* in every greeks_scaling mode
AnyInputNext ==
    \E S \in AnySpots, K \in Strikes, T \in Times, r \in Rates,
       sigma \in AnySigmas, option_type \in AnyTypes :
       BlackScholesPrice(S, K, T, r, sigma, option_type) /\ UNCHANGED <<changes, elsewhere>>

SpecAnyInput == KernelInit /\ [][AnyInputNext]_vars

Priced == ret.op = "black_scholes_price"

\* C14 as claimed: black_scholes_price fails with InvalidInput whenever
\* option_type is neither 'call' nor 'put', for T <= 0 and for T > 0; an
\* unknown kind is never priced as if it were a valid one.
C14_UnknownKindFails ==
    (Priced /\ ret.option_type \notin {"call", "put"}) =>
        ret.raised = "InvalidInput"

\* C15 as claimed: when sigma <= 0 and T > 0, black_scholes_price does not
\* divide by sigma * sqrt(T): it fails with InvalidInput or returns the
\* Greeks of the T <= 0 branch, never Greeks computed from the division.
C15_GuardBeforeDivision ==
    (Priced /\ ret.sigma <= 0 /\ ret.T > 0) =>
        \/ ret.raised = "InvalidInput"
        \/ /\ ret.raised = "none"
           /\ ret.out = intrinsic_greeks(ret.S, ret.K, ret.option_type)

\* an OptionSpec of the data model: S > 0, K > 0, a kind that is call or
\* put, and a sigma above 0 unless T <= 0
ValidSpec ==
    /\ Priced
    /\ ret.S > 0 /\ ret.K > 0
    /\ ret.option_type \in {"call", "put"}
    /\ ret.T > 0 => ret.sigma > 0

DeltaInRange ==
    IF ret.option_type = "call"
    THEN 0 <= ret.out.delta /\ ret.out.delta <= SCALE
    ELSE -SCALE <= ret.out.delta /\ ret.out.delta <= 0

\* C19 as claimed: the Greeks black_scholes_price returns for S > 0, K > 0
\* have delta in [0,1] (call) or [-1,0] (put), gamma >= 0 and price >=
\* max(S-K, 0) (call) or max(K-S, 0) (put).
C19_IntrinsicFloor ==
    ValidSpec =>
        /\ DeltaInRange
        /\ ret.out.gamma >= 0
        /\ ret.out.price >= (IF ret.option_type = "call"
                             THEN Max(ret.S - ret.K, 0)
                             ELSE Max(ret.K - ret.S, 0))

\* K * exp(-rT), the strike discounted over the time to expiry
DiscountedStrike ==
    IF ret.T > 0 THEN Mul[ret.K, Exp[-Mul[ret.r, ret.T]]] ELSE ret.K

\* C19, amended: for a valid OptionSpec with r >= 0, delta is in [0,1]
\* (call) or [-1,0] (put), gamma >= 0, the price of a call is >=
\* max(S-K, 0), and the price of a put is >= max(K*exp(-rT) - S, 0), the
\* floor of a put that cannot be exercised before expiry.
C19_DiscountedFloor ==
    (ValidSpec /\ ret.r >= 0) =>
        /\ DeltaInRange
        /\ ret.out.gamma >= 0
        /\ ret.out.price >= (IF ret.option_type = "call"
                             THEN Max(ret.S - ret.K, 0)
                             ELSE Max(DiscountedStrike - ret.S, 0))

\* a put deep in the money priced before expiry below K - S
C19_Witness ==
    /\ ValidSpec /\ ret.T > 0 /\ ret.r > 0
    /\ ret.option_type = "put"
    /\ ret.out.price < ret.K - ret.S
    /\ ret.out.price >= DiscountedStrike - ret.S

\* the delta of the same contract at another spot
DeltaAt(S) ==
    black_scholes_price(S, ret.K, ret.T, ret.r, ret.sigma, ret.option_type,
                        ret.mode).delta

\* C20 as claimed: with K, T, r and sigma fixed, the delta of a call is
\* non-decreasing in S and the delta of a put is non-increasing in S, in
\* the T <= 0 branch too.
C20_PutDeltaFalls ==
    ValidSpec =>
        \A S \in AnySpots :
            S >= ret.S =>
                IF ret.option_type = "call" THEN DeltaAt(S) >= ret.out.delta
                ELSE DeltaAt(S) <= ret.out.delta

\* C20, amended: with K, T, r and sigma of a valid OptionSpec fixed, the
\* delta of a call and the delta of a put are both non-decreasing in S, in
\* the T <= 0 branch too (the put's delta rises from -1 to 0).
C20_DeltaRises ==
    ValidSpec =>
        \A S \in AnySpots : S >= ret.S => DeltaAt(S) >= ret.out.delta

\* a put priced before expiry whose delta is higher at a higher spot
C20_Witness ==
    /\ ValidSpec /\ ret.T > 0
    /\ ret.option_type = "put"
    /\ \E S \in AnySpots : S > ret.S /\ DeltaAt(S) > ret.out.delta

\* the price of the contract of the other kind on the same arguments
PriceOf(option_type) ==
    IF ret.option_type = option_type THEN ret.out.price
    ELSE black_scholes_price(ret.S, ret.K, ret.T, ret.r, ret.sigma,
                             option_type, ret.mode).price

\* what the rounding of the four products of the two prices and of the
\* discounted strike can add up to, in units of 1 / SCALE: the tolerance
\* 1e-6 of the parity lies below the resolution of the arithmetic here
ParityTolerance == 2

-----------------------------------------------------------------------------
(* The solver on prices the kernel returned *)

\* the contracts priced: near the money at a low and at a high volatility,
\* and calls deep in the money, whose price no longer moves with sigma
RoundTripSpecs ==
    [S : Spots \cup {6000000}, K : Strikes, T : {40, 120, 278},
     sigma : {1320, 29900}, option_type : OptionTypes]
    \cup [S : Spots \cup {6000000}, K : {5000000}, T : {40, 120},
          sigma : {1320}, option_type : {"call"}]

\* analyzer.implied_volatility_calculator(price, S, K, T, r, option_type)
\* on the price black_scholes_price has just returned for sigma0
SolveReturnedPrice ==
    /\ ret.op = "black_scholes_price"
    /\ ret.T > 0
    /\ ret' = [op |-> "implied_volatility_calculator",
               market_price |-> ret.out.price, S |-> ret.S, K |-> ret.K,
               T |-> ret.T, r |-> ret.r, option_type |-> ret.option_type,
               sigma0 |-> ret.sigma, raised |-> "none",
               out |-> implied_volatility_calculator(
                           ret.out.price, ret.S, ret.K, ret.T, ret.r,
                           ret.option_type, greeks_scaling)]
    /\ UNCHANGED <<greeks_scaling, prev_scaling, config, sort_ties, rescaled,
                   analysis, comparison>>

RoundTripNext ==
    \/ \E spec \in RoundTripSpecs, r \in Rates :
          BlackScholesPrice(spec.S, spec.K, spec.T, r, spec.sigma,
                            spec.option_type)
          /\ UNCHANGED <<changes, elsewhere>>
    \/ SolveReturnedPrice /\ UNCHANGED <<changes, elsewhere>>

SpecRoundTrip == KernelInit /\ [][RoundTripNext]_vars

\* a price of the kernel handed back to the solver
RoundTrip == Solved /\ "sigma0" \in DOMAIN ret

\* how far the volatility recovered from a price computed at four decimals
\* can lie from sigma0 when the price moves with sigma, in units of
\* 1 / SCALE: the tolerance 1e-4 lies below the resolution of the prices
RoundTripTolerance == 200

\* C22 as claimed: for every sigma0 in (0.01, 3.0) and every S, K, T > 0
\* and r, implied_volatility_calculator on the price black_scholes_price
\* gives at sigma0 returns an implied_volatility that is sigma0, within the
\* resolution of the arithmetic.
C22_RoundTripRecovers ==
    RoundTrip =>
        /\ "error" \notin DOMAIN ret.out
        /\ Abs(ret.out.implied_volatility - ret.sigma0) <= RoundTripTolerance

-----------------------------------------------------------------------------
(* Expected moves derived from the implied volatility, then an analysis *)

\* round(x, 1)
round_1(x) == round_ratio(x, SCALE \div 10) * (SCALE \div 10)

\* update_expected_moves_from_iv(S, T, r, sigma, use_formula) on an analyzer
\* holding cfg and mode: the dict new_expected_moves, in the order of its
\* keys; True weighs 1 in a sum and 'iv_formula' is a string
new_expected_moves(S, T, r, sigma, use_formula, cfg, mode) ==
    LET moves(primary_move) ==
            <<Move("target_move", "num", round_1(primary_move)),
              Move("conservative", "num", round_1(Mul[primary_move, 5000])),
              Move("aggressive", "num", round_1(Mul[primary_move, 15000])),
              Move("formula_derived", "bool", SCALE),
              Move("source", "str", 0)>>
    IN  Only({moves(primary_move) : primary_move \in
                {IF use_formula
                 THEN calculate_expected_move(S, sigma, T).sigma_1
                 ELSE get_atm_straddle_price(S, T, r, sigma, cfg, mode)
                          .straddle_expected_move}})

\* analyzer.update_expected_moves_from_iv(S, T, r, sigma, use_formula)
UpdateExpectedMovesFromIv(S, T, r, sigma, use_formula) ==
    /\ ret' = [op |-> "update_expected_moves_from_iv", S |-> S, T |-> T,
               r |-> r, sigma |-> sigma, use_formula |-> use_formula,
               out |-> new_expected_moves(S, T, r, sigma, use_formula,
                                          config, greeks_scaling)]
    /\ config' = update_config(config, [expected_moves |-> ret'.out])
    /\ UNCHANGED <<greeks_scaling, prev_scaling, sort_ties, rescaled,
                   analysis, comparison>>

MovesNext ==
    \/ \E S \in AnalysisSpots, term \in AnalysisTerms, r \in Rates,
          sigma \in AnalysisSigmas \cup ComparisonSigmas,
          use_formula \in BOOLEAN :
          UpdateExpectedMovesFromIv(S, term[1], r, sigma, use_formula)
          /\ Counted
    \/ \E S \in AnalysisSpots, term \in AnalysisTerms, r \in Rates,
          sigma \in AnalysisSigmas :
          AnalyzeOptions(S, term[1], r, sigma, term[2]) /\ UNCHANGED <<changes, elsewhere>>

SpecMoves == AnalyzeInit /\ [][MovesNext]_vars

\* C23 as claimed: once update_expected_moves_from_iv has run on the
\* analyzer, every entry of config['expected_moves'] is a number, and an
\* analyze_options call that follows on the same analyzer does not raise.
C23_MovesStayNumeric ==
    changes > 0 =>
        /\ \A i \in 1..Len(config.expected_moves) :
              config.expected_moves[i].kind = "num"
        /\ ret.op = "analyze_options" => ret.out.raised = "none"

-----------------------------------------------------------------------------
(* The scaling mode under any sequence of set_greeks_scaling calls *)

\* what the calls pass: the three modes, and values that are none of them
ScalingArguments == ScalingModes \cup {"hourly", "DAILY", "", None}

\* analyzer.set_greeks_scaling(scaling), the call and what it raised
CallSetGreeksScaling(scaling) ==
    /\ greeks_scaling' = set_greeks_scaling(greeks_scaling, scaling)
    /\ prev_scaling' = IF scaling \in ScalingModes THEN greeks_scaling
                       ELSE prev_scaling
    /\ ret' = [op |-> "set_greeks_scaling", scaling |-> scaling,
               raised |-> IF scaling \notin ScalingModes THEN "ValueError"
                          ELSE "none"]
    /\ UNCHANGED <<config, sort_ties, rescaled, analysis, comparison>>

ScalingNext ==
    \/ \E scaling \in ScalingArguments :
          CallSetGreeksScaling(scaling) /\ UNCHANGED <<changes, elsewhere>>
    \/ \E S \in Spots, K \in Strikes, T \in Times, r \in Rates,
          sigma \in Sigmas, option_type \in OptionTypes :
          BlackScholesPrice(S, K, T, r, sigma, option_type) /\ UNCHANGED <<changes, elsewhere>>

SpecScaling == KernelInit /\ [][ScalingNext]_vars

\* C27: on a new analyzer greeks_scaling is always one of 'daily',
\* 'per_minute' and 'annual'; a set_greeks_scaling call with one of them
\* makes it the mode, and a call with any other value raises ValueError and
\* leaves greeks_scaling as it was, so that greeks_scaling is the last
\* valid mode passed, 'daily' if there was none.
C27_LastValidMode ==
    /\ [](greeks_scaling \in ScalingModes)
    /\ (ret.op = "none" => greeks_scaling = "daily")
    /\ [][ret'.op = "set_greeks_scaling" =>
             IF ret'.scaling \in ScalingModes
             THEN greeks_scaling' = ret'.scaling /\ ret'.raised = "none"
             ELSE /\ greeks_scaling' = greeks_scaling
                  /\ ret'.raised = "ValueError"]_vars
    /\ [][ret'.op # "set_greeks_scaling" =>
             greeks_scaling' = greeks_scaling]_vars

\* a call with a value that is no mode, on an analyzer set to per_minute
C27_Witness ==
    /\ ret.op = "set_greeks_scaling"
    /\ ret.scaling \notin ScalingModes
    /\ ret.raised = "ValueError"
    /\ greeks_scaling = "per_minute"
    /\ prev_scaling = "annual"

-----------------------------------------------------------------------------
(* IBKRTradingBot.run_trading_session and the broker that fills its orders *)

\* the option contracts the signals name
Contracts == {"600C", "605C", "595P"}

\* filter_trading_signals' result of one analysis, best score first;
\* analyze_opportunities may also return nothing
SignalLists ==
    {<<>>, <<"600C">>, <<"600C", "605C">>, <<"600C", "605C", "595P">>,
     <<"595P", "600C", "605C">>}

\* the iterations of the while loop the model follows
MaxIterations == 3

SessionLimits == {1, 2, 3}

NoOrders == [contract \in Contracts |-> 0]

\* the orders of a list of signals added to the orders of the book
Placed(book, signals) ==
    [contract \in Contracts |->
        book[contract]
        + Cardinality({i \in 1..Len(signals) : signals[i] = contract})]

Total(book) == book["600C"] + book["605C"] + book["595P"]

\* run_trading_session(max_positions) on a connected bot with no position
RunTradingSession(max_positions) ==
    /\ session.pc = "idle"
    /\ session' = [pc |-> "update", max_positions |-> max_positions,
                   iteration |-> 1,
                   positions |-> {},      \* self.positions
                   held |-> {},           \* ib.positions() of secType OPT
                   buying |-> NoOrders,   \* BUY orders placed, not filled
                   selling |-> {}]        \* SELL orders placed, not filled
    /\ UNCHANGED <<greeks_scaling, prev_scaling, config, sort_ties, ret,
                   rescaled, changes, analysis, comparison, analyzer,
                   strategy>>

SessionStep(next) ==
    /\ session' = next
    /\ UNCHANGED <<greeks_scaling, prev_scaling, config, sort_ties, ret,
                   rescaled, changes, analysis, comparison, analyzer,
                   strategy>>

\* update_positions: self.positions rebuilt from ib.positions()
UpdatePositions ==
    /\ session.pc = "update"
    /\ SessionStep([session EXCEPT !.pc = "open", !.positions = session.held])

\* if len(self.positions) < max_positions: place_option_order for
\* signals[:max_positions - len(self.positions)]
OpenPositions(signals) ==
    /\ session.pc = "open"
    /\ LET room == session.max_positions - Cardinality(session.positions)
       IN  IF room > 0
           THEN SessionStep(
                    [session EXCEPT
                        !.pc = "exits",
                        !.buying =
                            Placed(@, SubSeq(signals, 1,
                                             Min(room, Len(signals))))])
           ELSE SessionStep([session EXCEPT !.pc = "exits"])

\* close_position for the positions whose profit_pct left the band
ExitPositions(closed) ==
    /\ session.pc = "exits"
    /\ closed \subseteq session.positions
    /\ SessionStep([session EXCEPT !.pc = "sleep",
                                   !.selling = @ \cup closed])

\* time.sleep(check_interval), then the loop's test of self.connected
Sleep ==
    /\ session.pc = "sleep"
    /\ session.iteration < MaxIterations
    /\ SessionStep([session EXCEPT !.pc = "update",
                                   !.iteration = @ + 1])

\* the connection is lost during the sleep: the loop ends
Disconnected ==
    /\ session.pc = "sleep"
    /\ SessionStep([session EXCEPT !.pc = "ended"])

\* the broker fills a BUY order: the contract is among ib.positions()
FillBuy(contract) ==
    /\ session.pc \notin {"idle", "ended"}
    /\ session.buying[contract] > 0
    /\ SessionStep([session EXCEPT !.buying[contract] = @ - 1,
                                   !.held = @ \cup {contract}])

\* the broker fills a SELL order: the position is closed
FillSell(contract) ==
    /\ session.pc \notin {"idle", "ended"}
    /\ contract \in session.selling
    /\ SessionStep([session EXCEPT !.selling = @ \ {contract},
                                   !.held = @ \ {contract}])

SessionNext ==
    \/ \E max_positions \in SessionLimits : RunTradingSession(max_positions)
    \/ UpdatePositions
    \/ \E signals \in SignalLists : OpenPositions(signals)
    \/ \E closed \in SUBSET Contracts : ExitPositions(closed)
    \/ Sleep
    \/ Disconnected
    \/ \E contract \in Contracts : FillBuy(contract)
    \/ \E contract \in Contracts : FillSell(contract)

SpecSession == KernelInit /\ [][SessionNext]_vars

InSession == session.pc # "idle"

\* C28 as claimed: during run_trading_session(max_positions) the open
\* option positions plus the buy orders placed and not yet filled are never
\* more than max_positions, however late the broker fills an order.
C28_WithinMaxPositions ==
    InSession =>
        Cardinality(session.held) + Total(session.buying)
            <= session.max_positions

-----------------------------------------------------------------------------
(* ThetaDecayBot.run_strategy *)

\* the contracts get_best_contracts ranks
ThetaContracts == {"590P", "615C"}

\* scan_for_premium_selling's result: nothing when IV is low or the call
\* did not succeed, the candidates in rank order otherwise
Opportunities == {<<>>, <<"590P">>, <<"615C", "590P">>}

\* the longest run the model follows
MaxStrategyIterations == 5

\* the test that reads: # Max 3 positions
has_capacity_unlimited(positions) == TRUE

has_capacity(positions) == Len(positions) < 3

\* the elements of a list at indices outside a set
Without(list, indices) ==
    LET kept[i \in 0..Len(list)] ==
            IF i = 0 THEN <<>>
            ELSE IF i \in indices THEN kept[i - 1]
            ELSE Append(kept[i - 1], list[i])
    IN  kept[Len(list)]

StrategyStep(next) ==
    /\ strategy' = next
    /\ UNCHANGED <<greeks_scaling, prev_scaling, config, sort_ties, ret,
                   rescaled, changes, analysis, comparison, analyzer,
                   session>>

\* run_strategy(iterations) on a new bot
RunStrategy(iterations) ==
    /\ strategy.pc = "idle"
    /\ StrategyStep(IF iterations > 0
                    THEN [pc |-> "monitor", i |-> 1,
                          iterations |-> iterations, positions |-> <<>>,
                          scanned |-> "no"]
                    ELSE [pc |-> "done", i |-> 0, iterations |-> iterations,
                          positions |-> <<>>, scanned |-> "no"])

\* monitor_theta_positions: close_position(i), in reverse order, for the
\* positions that met an exit condition
MonitorThetaPositions(positions_to_close) ==
    /\ strategy.pc = "monitor"
    /\ positions_to_close \subseteq 1..Len(strategy.positions)
    /\ StrategyStep([strategy EXCEPT
                        !.pc = "scan",
                        !.positions = Without(@, positions_to_close)])

\* if len(self.positions) < 3: execute_premium_sale(opportunities[0])
ScanAndSell(opportunities) ==
    /\ strategy.pc = "scan"
    /\ IF has_capacity(strategy.positions)
       THEN IF opportunities # <<>>
            THEN StrategyStep([strategy EXCEPT
                                  !.pc = "wait", !.scanned = "sold",
                                  !.positions = Append(@, opportunities[1])])
            ELSE StrategyStep([strategy EXCEPT
                                  !.pc = "wait", !.scanned = "nothing"])
       ELSE StrategyStep([strategy EXCEPT !.pc = "wait", !.scanned = "full"])

\* analyze_options, get_market_iv or get_best_contracts raised: the run ends
ApiRaised ==
    /\ strategy.pc \in {"scan", "monitor"}
    /\ strategy.pc = "scan" => has_capacity(strategy.positions)
    /\ strategy.pc = "monitor" => strategy.positions # <<>>
    /\ StrategyStep([strategy EXCEPT !.pc = "raised"])

\* time.sleep(60) and the next iteration, or the end of the loop
Wait ==
    /\ strategy.pc = "wait"
    /\ StrategyStep(IF strategy.i < strategy.iterations
                    THEN [strategy EXCEPT !.pc = "monitor", !.i = @ + 1]
                    ELSE [strategy EXCEPT !.pc = "close"])

\* while self.positions: self.close_position(0)
CloseRemaining ==
    /\ strategy.pc = "close"
    /\ StrategyStep(IF strategy.positions # <<>>
                    THEN [strategy EXCEPT !.positions = Tail(@)]
                    ELSE [strategy EXCEPT !.pc = "done"])

StrategyNext ==
    \/ \E iterations \in 0..MaxStrategyIterations : RunStrategy(iterations)
    \/ \E positions_to_close \in SUBSET (1..3) :
          MonitorThetaPositions(positions_to_close)
    \/ \E opportunities \in Opportunities : ScanAndSell(opportunities)
    \/ ApiRaised
    \/ Wait
    \/ CloseRemaining

SpecStrategy == KernelInit /\ [][StrategyNext]_vars

\* C30: at every point of run_strategy the bot has at most 3 open
\* positions, for any number of iterations and whatever the scans return
\* and the monitoring closes.
C30_AtMostThreePositions ==
    strategy.pc # "idle" => Len(strategy.positions) <= 3

\* an iteration that found the bot full, after one that filled it
C30_Witness ==
    /\ strategy.pc = "wait"
    /\ strategy.scanned = "full"
    /\ Len(strategy.positions) = 3
    /\ strategy.i >= 4

-----------------------------------------------------------------------------
(* get_analyzer over the requests of the web app *)

\* _get_default_config for any other underlying: the 'SPX' values
SpxConfig ==
    [current_price |-> 60452600,
     strike_increment |-> 250000,
     strike_range_width |-> 3500000,
     expected_moves |-> <<Move("target_move", "num", 200000),
                          Move("conservative", "num", 100000),
                          Move("aggressive", "num", 300000)>>,
     min_premium |-> 5000,
     max_premium |-> 5000000,
     price_adjustment |-> 0,
     mark_vs_theoretical |-> "theoretical"]

\* _get_default_config of an analyzer whose underlying is stored
get_default_config(underlying) ==
    IF underlying = "SPY" THEN DefaultConfig ELSE SpxConfig

\* the instances the model tells apart
MaxInstances == 4

\* the 'underlying' field of the requests
RequestedUnderlyings == {"SPY", "spy", "SPX", "spx"}

\* the 'current_price' field of the requests; 0 is the default
RequestedPrices == {0, 5940000, 6000000, 6100000}

\* analyzer = None: no instance yet
NoAnalyzer == [underlying |-> None, instance |-> 0]

\* get_analyzer's test: analyzer is None or analyzer.underlying != underlying
is_replaced(underlying) ==
    analyzer = NoAnalyzer \/ analyzer.underlying # underlying

\* a request: analyzer = get_analyzer(underlying), then
\* analyzer.update_config(current_price=current_price) if the request
\* gave a price; seen is the config the request found on the analyzer
ServeRequest(underlying, current_price) ==
    /\ is_replaced(underlying) => analyzer.instance < MaxInstances
    /\ LET fresh == is_replaced(underlying)
           found == IF fresh THEN get_default_config(Upper(underlying))
                    ELSE config
       IN  /\ analyzer' = IF fresh
                          THEN Shared(underlying, analyzer.instance + 1)
                          ELSE analyzer
           /\ greeks_scaling' = IF fresh THEN "daily" ELSE greeks_scaling
           /\ prev_scaling' = IF fresh THEN "daily" ELSE prev_scaling
           /\ config' = IF current_price > 0
                        THEN update_config(found,
                                           [current_price |-> current_price])
                        ELSE found
           /\ ret' = [op |-> "get_analyzer", underlying |-> underlying,
                      replaced |-> fresh, seen |-> found]
    /\ UNCHANGED <<sort_ties, rescaled, changes, analysis, comparison,
                   session, strategy>>

\* the app as imported: analyzer = None
ServeInit ==
    /\ analyzer = NoAnalyzer
    /\ config = None
    /\ greeks_scaling = None
    /\ prev_scaling = None
    /\ sort_ties = "keep"
    /\ ret = NoCall
    /\ rescaled = NoCall
    /\ changes = 0
    /\ analysis = Idle
    /\ comparison = Idle
    /\ session = NoSession
    /\ strategy = NoStrategy

ServeNext ==
    \E underlying \in RequestedUnderlyings, current_price \in RequestedPrices :
        ServeRequest(underlying, current_price)

SpecServe == ServeInit /\ [][ServeNext]_vars

\* C29 as claimed: a request that names the underlying of the request
\* before it, in any letter case, is served by the same analyzer instance
\* and finds the config the earlier request left; the shared analyzer is
\* replaced by a new one with the default config only when the requested
\* underlying is not the current one.
C29_SameUnderlyingSameAnalyzer ==
    /\ [][(ret.op = "get_analyzer"
           /\ Upper(ret'.underlying) = Upper(ret.underlying))
          => analyzer' = analyzer /\ ret'.seen = config]_vars
    /\ [][(analyzer # NoAnalyzer /\ ret'.replaced)
          => Upper(ret'.underlying) # analyzer.underlying]_vars

====
